---------------------------- MODULE Spec2Model ----------------------------
(***************************************************************************)
(* Model of the twapi client core:                                         *)
(*   - compression/varint.go : the VarInt codec (Pack / Unpack)            *)
(*   - browser/client.go     : FetchToken, FetchWithToken, Fetch,          *)
(*                             MatchResponse and the two-level fan-out of  *)
(*                             ServerInfosWithTimeouts                     *)
(* Three state machines share the module; each specification moves the     *)
(* variables of one subsystem and leaves the others unchanged:             *)
(*   Spec      the VarInt buffer                                           *)
(*   SpecFetch the retry engine of one Fetch call                          *)
(*   SpecFan   the goroutines of one ServerInfosWithTimeouts call          *)
(***************************************************************************)
EXTENDS Integers, Sequences, FiniteSets, TLC

VARIABLES
    (* ---- compression.VarInt ---- *)
    Compressed,     \* VarInt.Compressed, a sequence of bytes
    isNil,          \* TRUE while VarInt.Compressed == nil
    packed,         \* history: values packed into a buffer that started empty, not yet unpacked
    fresh,          \* history: the buffer started empty (packed describes all of its content)
    last,           \* history: the last call on the buffer and what it returned
    noData          \* history: an Unpack of the buffer has failed with NoDataToUnpack

codecVars == <<Compressed, isNil, packed, fresh, last, noData>>

VARIABLES
    (* ---- browser.Fetch: one call, its two retry loops ---- *)
    now,            \* the clock, in ticks
    stage,          \* where Fetch is: "token" (in FetchToken), "typed" (in FetchWithToken), "done"
    pc,             \* where the stage is: "enter", "check", "burst", "returned"
    packet,         \* Fetch's argument packet
    fetchTimeout,   \* Fetch's argument timeout
    fetchBegin,     \* Fetch's begin
    timeout,        \* the running exchange's timeout (its argument, then floored)
    begin,          \* the running exchange's begin
    timeLeft,       \* the running exchange's timeLeft
    currentTimeout, \* the running exchange's currentTimeout
    writeBurst,     \* the running exchange's writeBurst, as the fraction <<numerator, denominator>>
    burstI,         \* the burst loop's i
    deadline,       \* the read deadline set on the connection
    response,       \* the running exchange's result response
    err,            \* the running exchange's result err
    token,          \* Fetch's token: "none" until ParseToken returned one
    fetchResponse,  \* Fetch's result response
    failedAt,       \* history: the stage whose error Fetch returned: "token", "parse", "typed"
    attempt,        \* history: the number of bursts the running exchange has completed
    instant,        \* history: the number of reads that returned within the tick they began
    exit,           \* history: the statement the exchange returned from
    wfail,          \* history: the failed write, if any
    rx,             \* history: what the last read of the connection delivered
    wroteTyped      \* history: a typed request was written

fetchVars ==
    <<now, stage, pc, packet, fetchTimeout, fetchBegin, timeout, begin, timeLeft,
      currentTimeout, writeBurst, burstI, deadline, response, err, token, fetchResponse,
      failedAt, attempt, instant, exit, wfail, rx, wroteTyped>>

VARIABLES
    (* ---- browser.ServerInfosWithTimeouts: its goroutines ---- *)
    mainPc,         \* ServerInfosWithTimeouts: "start", "wait", "returned"
    wg,             \* wg, the counter of the first-level WaitGroup
    cm,             \* cm, the ConcurrentMap: a sequence of ServerInfo
    infos,          \* the result infos
    msPc,           \* per master server: where fetchServersFromMasterServerAddress is
    msConn,         \* per master server: its conn, "none", "open" or "closed"
    servers,        \* per master server: servers, the parsed list
    infoWaiter,     \* per master server: the counter of its infoWaiter
    srvPc,          \* per master server and list index: where fetchServerInfoFromServerAddress is
    srvConn,        \* per master server and list index: its conn
    msOut,          \* history, per master server: how its dial, exchange and parse ended
    srvOut,         \* history, per master server and list index: how its dial, exchange and parse ended
    msDone,         \* history, per master server: the number of wg.Done() calls
    srvDone,        \* history, per master server and list index: the number of infoWaiter.Done() calls
    lateAdd         \* history: cm.Add was called after cm.Values()

fanVars ==
    <<mainPc, wg, cm, infos, msPc, msConn, servers, infoWaiter, srvPc, srvConn, msOut,
      srvOut, msDone, srvDone, lateAdd>>

\* The classifier: the buffer handed to MatchResponse and what it returned
VARIABLES
    msg,                \* the buffer handed to MatchResponse
    matched             \* <<match, err>> as returned, NoMatch before the call

classVars == <<msg, matched>>

(***************************************************************************)
(* Go's int is 64 bits wide on the platforms the module is built for       *)
(* (unsafe.Sizeof(value) = 8).  An int is modelled as its two's complement *)
(* bit vector: a sequence of intBits bits, least significant bit first.    *)
(* Bytes are the integers 0..255.                                          *)
(***************************************************************************)

\* unsafe.Sizeof(value) for an int
intSize == 8

intBits == intSize * 8

\* A bit vector given as a function on 1..intBits, as a sequence
Vec(f) == f \o <<>>

\* The low k bits of the two's complement of n, least significant first
RECURSIVE BitsOf(_, _)
BitsOf(n, k) == IF k = 0 THEN <<>> ELSE <<n % 2>> \o BitsOf(n \div 2, k - 1)

\* The int with the value n
IntOf(n) == BitsOf(n, intBits)

\* x >> n on an int (arithmetic shift: the sign bit fills in)
Shr(x, n) == Vec([i \in 1..intBits |-> IF i + n <= intBits THEN x[i + n] ELSE x[intBits]])

\* x << n on an int
Shl(x, n) == Vec([i \in 1..intBits |-> IF i - n >= 1 THEN x[i - n] ELSE 0])

\* x & y, x | y, x ^ y on ints
And(x, y) == Vec([i \in 1..intBits |-> x[i] * y[i]])

Or(x, y) == Vec([i \in 1..intBits |-> IF x[i] + y[i] > 0 THEN 1 ELSE 0])

Xor(x, y) == Vec([i \in 1..intBits |-> (x[i] + y[i]) % 2])

\* -x on an int: the bits above the lowest set bit are flipped
RECURSIVE NegFrom(_, _, _)
NegFrom(x, i, flip) ==
    IF i > intBits THEN <<>>
    ELSE <<IF flip THEN 1 - x[i] ELSE x[i]>> \o NegFrom(x, i + 1, flip \/ x[i] = 1)

Neg(x) == NegFrom(x, 1, FALSE)

\* x < y on ints (signed): the sign bits decide, else the highest bit that differs
RECURSIVE LessFrom(_, _, _)
LessFrom(x, y, i) ==
    IF i = 0 THEN FALSE
    ELSE IF x[i] # y[i] THEN x[i] < y[i]
    ELSE LessFrom(x, y, i - 1)

Less(x, y) ==
    IF x[intBits] # y[intBits] THEN x[intBits] = 1
    ELSE LessFrom(x, y, intBits - 1)

\* byte(x): the low 8 bits of an int
ToByte(x) == x[1] + 2 * x[2] + 4 * x[3] + 8 * x[4] + 16 * x[5] + 32 * x[6] + 64 * x[7] + 128 * x[8]

\* a & b on bytes
RECURSIVE BitAnd(_, _)
BitAnd(a, b) ==
    IF a = 0 \/ b = 0 THEN 0
    ELSE (a % 2) * (b % 2) + 2 * BitAnd(a \div 2, b \div 2)

\* a | b on bytes
RECURSIVE BitOr(_, _)
BitOr(a, b) ==
    IF a = 0 THEN b
    ELSE IF b = 0 THEN a
    ELSE (IF (a % 2) + (b % 2) > 0 THEN 1 ELSE 0) + 2 * BitOr(a \div 2, b \div 2)

Zero == IntOf(0)

\* math.MaxInt32 and math.MinInt32 as ints
MaxInt32 == IntOf(2147483647)

MinInt32 == IntOf(-2147483647 - 1)

\* maxBytesInVarInt: an encoded integer is at most 5 bytes long
maxBytesInVarInt == 5

(***************************************************************************)
(* VarInt codec                                                            *)
(***************************************************************************)

\* The values handed to Pack: the ends of the 32-bit range, values on both
\* sides of the length boundaries of the encoding (6, 13, 20 and 27 value
\* bits) with either sign, and a mixed bit pattern.
InRangeValues ==
    { IntOf(n) : n \in { 0, -1, 63, 64, -64, -65, 8191, -8193, 1048576,
                         -134217729, 305419896 } }
    \cup { MaxInt32, MinInt32 }

\* 2^31 and -2^31 - 1
OutOfRangeValues == { Shl(IntOf(1), 31), Xor(Shl(IntOf(1), 31), IntOf(-1)) }

\* Byte sequences handed to NewVarIntFrom that no Pack produced
RawBuffers == { <<>>, <<128>>, <<191, 1>>, <<255, 255, 255, 255, 255, 1>> }

\* The number of values a buffer holds at most in the model
MaxPacked == 2

\* Pack, lines 123-134: the 2nd to nth byte, for what is left of value
RECURSIVE PackRest(_)
PackRest(value) ==
    LET b    == BitAnd(ToByte(value), 127)
        rest == Shr(value, 7)
    IN  IF rest # Zero THEN <<BitOr(b, 128)>> \o PackRest(rest) ELSE <<b>>

\* PackBytes with 7 instead of 6 value bits put into the first byte
PackBytesWideMask(value) ==
    LET sign  == BitAnd(ToByte(Shr(value, intBits - 7)), 64)
        v1    == Xor(value, Shr(value, intBits - 1))
        first == BitOr(sign, BitAnd(ToByte(v1), 127))
        v2    == Shr(v1, 6)
    IN  IF v2 # Zero THEN <<BitOr(first, 128)>> \o PackRest(v2) ELSE <<first>>

\* PackBytes that leaves out the sign
PackBytesNoSign(value) ==
    LET v1    == Xor(value, Shr(value, intBits - 1))
        first == BitAnd(ToByte(v1), 63)
        v2    == Shr(v1, 6)
    IN  IF v2 # Zero THEN <<BitOr(first, 128)>> \o PackRest(v2) ELSE <<first>>

\* Pack, lines 108-138: the bytes data[:index] that Pack appends for value
PackBytes(value) ==
    LET sign  == BitAnd(ToByte(Shr(value, intBits - 7)), 64)
        v1    == Xor(value, Shr(value, intBits - 1))
        first == BitOr(sign, BitAnd(ToByte(v1), 63))
        v2    == Shr(v1, 6)
    IN  IF v2 # Zero THEN <<BitOr(first, 128)>> \o PackRest(v2) ELSE <<first>>

\* UnpackLoop that takes a byte of exactly 128 as the last of its integer
RECURSIVE UnpackLoopEarlyStop(_, _, _, _)
UnpackLoopEarlyStop(data, index, value, i) ==
    IF i >= maxBytesInVarInt - 1 \/ data[index] <= 128
    THEN [index |-> index, value |-> value, panic |-> FALSE]
    ELSE IF index + 1 > Len(data)
    THEN [index |-> index + 1, value |-> value, panic |-> TRUE]
    ELSE UnpackLoopEarlyStop(data, index + 1,
                    Or(value, Shl(IntOf(BitAnd(data[index + 1], 127)), 6 + 7 * i)),
                    i + 1)

\* Unpack, lines 82-88: the loop over the 2nd to nth byte; index counts the
\* bytes read so far.  Reading data[index] past the end of the slice is a
\* run-time panic.
RECURSIVE UnpackLoop(_, _, _, _)
UnpackLoop(data, index, value, i) ==
    IF i >= maxBytesInVarInt - 1 \/ data[index] < 128
    THEN [index |-> index, value |-> value, panic |-> FALSE]
    ELSE IF index + 1 > Len(data)
    THEN [index |-> index + 1, value |-> value, panic |-> TRUE]
    ELSE UnpackLoop(data, index + 1,
                    Or(value, Shl(IntOf(BitAnd(data[index + 1], 127)), 6 + 7 * i)),
                    i + 1)

\* Unpack, lines 74-91 on a non-empty slice: the decoded value, the number of
\* bytes consumed (index after line 90) and whether the loop panicked
UnpackBytes(data) ==
    LET sign == IntOf(BitAnd(data[1] \div 64, 1))
        v0   == IntOf(BitAnd(data[1], 63))
        r    == UnpackLoop(data, 1, v0, 0)
    IN  [value |-> Xor(r.value, Neg(sign)), index |-> r.index, panic |-> r.panic]

\* PackBytes of every value the model packs, computed once
Encoding == [value \in InRangeValues |-> PackBytes(value)]

\* No call yet.  op: the call; arg: the value handed to Pack, or for Unpack
\* the value whose encoding is at the front of the buffer; value, err: what
\* the call returned; n: the bytes appended or consumed; size: for Unpack the
\* length of the encoding at the front; pending: Len(packed) before the call
NoCall ==
    [op |-> "none", arg |-> Zero, value |-> Zero, err |-> "nil", n |-> 0, size |-> 0,
     pending |-> 0]

\* var v VarInt: the zero value, Compressed == nil
InitNil ==
    /\ Compressed = <<>>
    /\ isNil = TRUE
    /\ packed = <<>>
    /\ fresh = TRUE
    /\ last = NoCall
    /\ noData = FALSE

\* NewVarIntFrom(bytes)
NewVarIntFrom ==
    \E bytes \in RawBuffers :
        /\ Compressed = bytes
        /\ isNil = FALSE
        /\ packed = <<>>
        /\ fresh = (bytes = <<>>)
        /\ last = NoCall
        /\ noData = FALSE

\* v.Clear()
Clear ==
    /\ Compressed # <<>>
    /\ Compressed' = <<>>
    /\ isNil' = FALSE
    /\ packed' = <<>>
    /\ fresh' = TRUE
    /\ last' = [NoCall EXCEPT !.op = "Clear"]
    /\ UNCHANGED noData
    /\ UNCHANGED <<fetchVars, fanVars, classVars>>

\* The check of Pack with its lower bound left out
OutOfBoundsAbove(value) == Less(MaxInt32, value)

\* Pack, line 104: value < math.MinInt32 || math.MaxInt32 < value
OutOfBounds(value) == Less(value, MinInt32) \/ Less(MaxInt32, value)

\* v.Pack(value)
Pack ==
    /\ UNCHANGED <<fetchVars, fanVars, classVars>>
    /\ UNCHANGED noData
    /\ \E value \in InRangeValues \cup OutOfRangeValues :
           /\ Len(packed) < MaxPacked
           /\ isNil' = FALSE
           /\ IF OutOfBounds(value)
              THEN \* line 105: panic
                   /\ last' = [NoCall EXCEPT !.op = "Pack", !.arg = value, !.err = "panic",
                                             !.pending = Len(packed)]
                   /\ UNCHANGED <<Compressed, packed, fresh>>
              ELSE LET data == IF value \in InRangeValues THEN Encoding[value]
                                                           ELSE PackBytes(value)
                   IN  IF Len(data) > maxBytesInVarInt
                       THEN \* data[index] past the 5 bytes made at line 111: panic
                            /\ last' = [NoCall EXCEPT !.op = "Pack", !.arg = value,
                                                      !.err = "panic",
                                                      !.pending = Len(packed)]
                            /\ UNCHANGED <<Compressed, packed, fresh>>
                       ELSE /\ Compressed' = Compressed \o data
                            /\ packed' = Append(packed, [v |-> value, n |-> Len(data)])
                            /\ last' = [NoCall EXCEPT !.op = "Pack", !.arg = value,
                                                      !.n = Len(data),
                                                      !.pending = Len(packed)]
                            /\ UNCHANGED fresh

\* Unpack that takes a buffer of one byte for an empty one
EmptyOrOne(data) == Len(data) <= 1

\* Unpack, line 69: len(v.Compressed) == 0
Empty(data) == Len(data) = 0

\* v.Unpack()
Unpack ==
    /\ UNCHANGED <<fetchVars, fanVars, classVars>>
    /\ IF Empty(Compressed)
       THEN \* lines 65-72
            /\ last' = [NoCall EXCEPT !.op = "Unpack", !.err = "NoDataToUnpack",
                                      !.pending = Len(packed)]
            /\ isNil' = FALSE
            /\ noData' = TRUE
            /\ UNCHANGED <<Compressed, packed, fresh>>
       ELSE LET r     == UnpackBytes(Compressed)
                front == fresh /\ packed # <<>>
            IN  IF r.panic
                THEN \* index out of range at line 87
                     /\ last' = [NoCall EXCEPT !.op = "Unpack", !.err = "panic",
                                               !.pending = Len(packed)]
                     /\ UNCHANGED <<Compressed, isNil, packed, fresh, noData>>
                ELSE /\ Compressed' = SubSeq(Compressed, r.index + 1, Len(Compressed))
                     /\ last' = [op |-> "Unpack",
                                 arg |-> IF front THEN Head(packed).v ELSE Zero,
                                 value |-> r.value, err |-> "nil", n |-> r.index,
                                 size |-> IF front THEN Head(packed).n ELSE 0,
                                 pending |-> Len(packed)]
                     /\ packed' = IF front THEN Tail(packed) ELSE packed
                     /\ UNCHANGED <<isNil, fresh, noData>>

CodecInit == InitNil \/ NewVarIntFrom

CodecNext == Pack \/ Unpack \/ Clear


(***************************************************************************)
(* Retry engine: FetchToken, FetchWithToken, Fetch                         *)
(*                                                                         *)
(* Time is counted in ticks.  Time passes while a read blocks; the writes  *)
(* of a burst and the computations between them take no time.  A read may  *)
(* also return within the tick it began (a datagram was already queued),   *)
(* at most MaxInstantReads times in one Fetch: the clock advances.         *)
(***************************************************************************)

\* minTimeout, in ticks
minTimeout == 2

\* The largest timeout handed to Fetch, in ticks
MaxTimeout == 4

\* The number of reads of one Fetch that return within the tick they began
MaxInstantReads == 1

\* tokenResponseSize, minPrefixLength, tokenPrefixSize, maxBufferSize in bytes,
\* and the three signatures, scaled down
tokenResponseSize == 5

minPrefixLength == 4

tokenPrefixSize == 2

maxBufferSize == 8

sendServerListRaw == <<255, 1>>

sendServerCountRaw == <<255, 2>>

sendInfoRaw == <<255, 3>>

\* A nil []byte, as opposed to an empty one
NilBytes == <<-1>>

\* The datagrams the peer may send: an empty one, one shorter than a header,
\* two of the size of a token response (one of them carrying the server list
\* signature), one response of each type, and an unrecognised one
Datagrams ==
    { <<>>, <<0, 0>>, <<7, 7, 7, 7, 7>>, <<0, 0, 255, 1, 0>>,
      <<0, 0, 255, 1, 0, 0>>, <<0, 0, 255, 2, 9, 9>>, <<0, 0, 255, 3, 7, 7>>,
      <<0, 0, 9, 9, 9, 9>> }

Packets == { "serverlist", "servercount", "serverinfo" }

Timeouts == 0..MaxTimeout

Min(a, b) == IF a < b THEN a ELSE b

\* MatchResponse that looks for the signatures before it looks at the size
MatchResponseSignatureFirst(responseMessage) ==
    IF Len(responseMessage) < minPrefixLength THEN <<"", "InvalidHeaderLength">>
    ELSE IF sendServerListRaw =
            SubSeq(responseMessage, tokenPrefixSize + 1,
                   tokenPrefixSize + Len(sendServerListRaw))
    THEN <<"serverlist", "nil">>
    ELSE IF sendServerCountRaw =
            SubSeq(responseMessage, tokenPrefixSize + 1,
                   tokenPrefixSize + Len(sendServerCountRaw))
    THEN <<"servercount", "nil">>
    ELSE IF sendInfoRaw =
            SubSeq(responseMessage, tokenPrefixSize + 1,
                   tokenPrefixSize + Len(sendInfoRaw))
    THEN <<"serverinfo", "nil">>
    ELSE IF Len(responseMessage) = tokenResponseSize THEN <<"token", "nil">>
    ELSE <<"", "InvalidResponseMessage">>

\* MatchResponse(responseMessage): <<match, err>>
MatchResponse(responseMessage) ==
    IF Len(responseMessage) < minPrefixLength THEN <<"", "InvalidHeaderLength">>
    ELSE IF Len(responseMessage) = tokenResponseSize THEN <<"token", "nil">>
    ELSE IF sendServerListRaw =
            SubSeq(responseMessage, tokenPrefixSize + 1,
                   tokenPrefixSize + Len(sendServerListRaw))
    THEN <<"serverlist", "nil">>
    ELSE IF sendServerCountRaw =
            SubSeq(responseMessage, tokenPrefixSize + 1,
                   tokenPrefixSize + Len(sendServerCountRaw))
    THEN <<"servercount", "nil">>
    ELSE IF sendInfoRaw =
            SubSeq(responseMessage, tokenPrefixSize + 1,
                   tokenPrefixSize + Len(sendInfoRaw))
    THEN <<"serverinfo", "nil">>
    ELSE <<"", "InvalidResponseMessage">>

\* What r.Read delivers: an error (and nothing read), or the front of a datagram
ReadResults ==
    { [err |-> e, data |-> NilBytes] : e \in { "ReadTimeout", "ReadError" } }
    \cup { [err |-> "nil", data |-> d] : d \in Datagrams }

\* ReceiveToken(r), given what r.Read delivers: <<response, err>>
ReceiveToken(r) ==
    IF r.err # "nil" THEN <<NilBytes, r.err>>
    ELSE LET read == Min(Len(r.data), tokenResponseSize)
         IN  <<SubSeq(r.data, 1, read),
               IF read # tokenResponseSize THEN "InvalidResponseMessage" ELSE "nil">>

\* Receive that takes every response the classifier knows
ReceiveAnyType(pkt, r) ==
    IF r.err # "nil" THEN <<NilBytes, r.err>>
    ELSE LET read == Min(Len(r.data), maxBufferSize)
             resp == SubSeq(r.data, 1, read)
         IN  IF read = 0 THEN <<resp, "InvalidResponseMessage">>
             ELSE IF MatchResponse(resp)[2] # "nil"
             THEN <<NilBytes, MatchResponse(resp)[2]>>
             ELSE <<resp, "nil">>

\* Receive(packet, r), given what r.Read delivers: <<response, err>>
Receive(pkt, r) ==
    IF r.err # "nil" THEN <<NilBytes, r.err>>
    ELSE LET read == Min(Len(r.data), maxBufferSize)
             resp == SubSeq(r.data, 1, read)
         IN  IF read = 0 THEN <<resp, "InvalidResponseMessage">>
             ELSE IF MatchResponse(resp)[2] # "nil"
             THEN <<NilBytes, MatchResponse(resp)[2]>>
             ELSE <<resp, IF MatchResponse(resp)[1] # pkt
                          THEN "RequestResponseMismatch" ELSE "nil">>

\* The longest buffer handed to MatchResponse in the model
MaxMessageLen == 6

\* The bytes of the buffers handed to MatchResponse: those of the signatures
MessageBytes == { 255, 1, 2, 3 }

\* The buffers handed to MatchResponse
Messages == UNION { [1..n -> MessageBytes] : n \in 0..MaxMessageLen }

\* MatchResponse has not been called
NoMatch == <<"", "none">>

\* A buffer about to be handed to MatchResponse
ClassInit ==
    /\ msg \in Messages
    /\ matched = NoMatch

\* No call of MatchResponse is under way
ClassIdle ==
    /\ msg = <<>>
    /\ matched = NoMatch

\* The call MatchResponse(msg)
Match ==
    /\ matched = NoMatch
    /\ matched' = MatchResponse(msg)
    /\ UNCHANGED msg
    /\ UNCHANGED <<codecVars, fetchVars, fanVars>>

ClassNext == Match

NoWrite == [stage |-> "none", i |-> 0, attempt |-> 0, left |-> 0]

NoRead == [err |-> "none", data |-> NilBytes]

\* Fetch(packet, rwd, timeout), line 214, about to call FetchToken
FetchInit ==
    /\ now = 0
    /\ stage = "token"
    /\ pc = "enter"
    /\ packet \in Packets
    /\ fetchTimeout \in Timeouts
    /\ fetchBegin = 0
    /\ timeout = fetchTimeout
    /\ begin = 0
    /\ timeLeft = 0
    /\ currentTimeout = 0
    /\ writeBurst = <<1, 1>>
    /\ burstI = 0
    /\ deadline = 0
    /\ response = NilBytes
    /\ err = "nil"
    /\ token = "none"
    /\ fetchResponse = NilBytes
    /\ failedAt = "none"
    /\ attempt = 0
    /\ instant = 0
    /\ exit = "none"
    /\ wfail = NoWrite
    /\ rx = NoRead
    /\ wroteTyped = FALSE

Running == stage \in { "token", "typed" }

\* FetchToken lines 42-49, FetchWithToken lines 144-151
Enter ==
    /\ Running /\ pc = "enter"
    /\ timeout' = IF timeout < minTimeout THEN minTimeout ELSE timeout
    /\ begin' = now
    /\ timeLeft' = timeout'
    /\ currentTimeout' = minTimeout
    /\ writeBurst' = <<1, 1>>
    /\ pc' = "check"
    /\ UNCHANGED <<now, stage, packet, fetchTimeout, fetchBegin, burstI, deadline, response,
                   err, token, fetchResponse, failedAt, attempt, instant, exit, wfail, rx,
                   wroteTyped>>
    /\ UNCHANGED <<codecVars, fanVars, classVars>>

\* FetchToken lines 52-59, FetchWithToken lines 154-161: the top of the loop
Check ==
    /\ Running /\ pc = "check"
    /\ timeLeft' = timeout - (now - begin)
    /\ deadline' = now + currentTimeout
    /\ IF timeLeft' <= 0
       THEN /\ err' = "Timeout"
            /\ pc' = "returned"
            /\ exit' = "check"
            /\ UNCHANGED burstI
       ELSE /\ burstI' = 0
            /\ pc' = "burst"
            /\ UNCHANGED <<err, exit>>
    /\ UNCHANGED <<now, stage, packet, fetchTimeout, fetchBegin, timeout, begin,
                   currentTimeout, writeBurst, response, token, fetchResponse, failedAt,
                   attempt, instant, wfail, rx, wroteTyped>>
    /\ UNCHANGED <<codecVars, fanVars, classVars>>

\* A burst loop that counts the whole part of writeBurst: i + 1 <= writeBurst
InBurstWhole == (burstI + 1) * writeBurst[2] <= writeBurst[1]

\* i < writeBurst
InBurst == burstI * writeBurst[2] < writeBurst[1]

\* What one request does: RequestToken lines 13-23, Request lines 92-113.
\* "ok": all bytes written; "error": w.Write returned an error; "short": fewer
\* bytes written; "build": the packet builder returned an error (typed requests)
WriteResults == { "ok", "error", "short", "build" }

\* RequestToken and Request with every short write taken as a success
RequestErrIgnoreShort(w) ==
    CASE w = "ok" -> "nil"
      [] w = "error" -> "WriteError"
      [] w = "short" -> "nil"
      [] w = "build" -> "BuildError"

\* The error a request returns: RequestToken lines 15-22, Request lines 102-112
RequestErr(w) ==
    CASE w = "ok" -> "nil"
      [] w = "error" -> "WriteError"
      [] w = "short" -> "InvalidWrite"
      [] w = "build" -> "BuildError"

\* FetchToken lines 62-67, FetchWithToken lines 164-169: one request of the burst
Write ==
    /\ Running /\ pc = "burst" /\ InBurst
    /\ \E w \in WriteResults :
        /\ w = "build" => stage = "typed"
        /\ err' = RequestErr(w)
        /\ wroteTyped' = (wroteTyped \/ (stage = "typed" /\ w # "build"))
        /\ wfail' = IF w \in { "error", "short" }
                    THEN [stage |-> stage, i |-> burstI, attempt |-> attempt,
                          left |-> timeLeft]
                    ELSE wfail
        /\ IF err' # "nil"
           THEN /\ pc' = "returned"
                /\ exit' = "write"
                /\ UNCHANGED burstI
           ELSE /\ burstI' = burstI + 1
                /\ UNCHANGED <<pc, exit>>
    /\ UNCHANGED <<now, stage, packet, fetchTimeout, fetchBegin, timeout, begin, timeLeft,
                   currentTimeout, writeBurst, deadline, response, token, fetchResponse,
                   failedAt, attempt, instant, rx>>
    /\ UNCHANGED <<codecVars, fanVars, classVars>>

\* A typed burst that grows by one request with every attempt
NextBurstByOne(st, wb) == IF st = "token" THEN <<wb[1] * 6, wb[2] * 5>> ELSE <<wb[1] + 1, wb[2]>>

\* FetchToken line 82: writeBurst *= 1.2; FetchWithToken line 184: writeBurst *= 2
NextBurst(st, wb) == IF st = "token" THEN <<wb[1] * 6, wb[2] * 5>> ELSE <<wb[1] * 2, wb[2]>>

\* A loop that returns whatever its read returned
AfterReadGiveUp(e) == "returned"

\* FetchToken lines 71-73, FetchWithToken lines 173-175: return when the read
\* succeeded, else go on to the backoff and the next iteration
AfterRead(e) == IF e = "nil" THEN "returned" ELSE "check"

\* FetchToken lines 70-82, FetchWithToken lines 172-184: the read after the
\* burst and, when it failed, the backoff.  The read returns d ticks after the
\* deadline was set: with a time-out error at the deadline, with a datagram or
\* another error at or before it.
Read ==
    /\ Running /\ pc = "burst" /\ ~InBurst
    /\ \E r \in ReadResults, d \in 0..(deadline - now) :
        /\ r.err = "ReadTimeout" => d = deadline - now
        /\ d = 0 => instant < MaxInstantReads
        /\ instant' = IF d = 0 THEN instant + 1 ELSE instant
        /\ now' = now + d
        /\ rx' = r
        /\ LET got == IF stage = "token" THEN ReceiveToken(r) ELSE Receive(packet, r)
           IN  /\ response' = got[1]
               /\ err' = got[2]
               /\ pc' = AfterRead(got[2])
               /\ IF pc' = "returned"
                  THEN /\ exit' = "read"
                       /\ UNCHANGED <<timeLeft, currentTimeout, writeBurst, attempt>>
                  ELSE /\ timeLeft' = timeout - (now' - begin)
                       /\ currentTimeout' = IF timeLeft' <= currentTimeout
                                            THEN timeLeft' ELSE currentTimeout * 2
                       /\ writeBurst' = NextBurst(stage, writeBurst)
                       /\ attempt' = attempt + 1
                       /\ UNCHANGED exit
    /\ UNCHANGED <<stage, packet, fetchTimeout, fetchBegin, timeout, begin, burstI, deadline,
                   token, fetchResponse, failedAt, wfail, wroteTyped>>
    /\ UNCHANGED <<codecVars, fanVars, classVars>>

\* What ParseToken(resp) does
ParseResults == { "ok", "error" }

\* Fetch that calls FetchWithToken whatever ParseToken returned
AfterParseGoOn(p) == "typed"

\* Fetch lines 220-222: return when ParseToken failed
AfterParse(p) == IF p = "ok" THEN "typed" ELSE "done"

\* Fetch lines 215-224: FetchToken has returned.  With an error Fetch returns
\* it; else ParseToken(resp), and with a token the call of FetchWithToken with
\* what is left of the timeout.
ParseToken ==
    /\ stage = "token" /\ pc = "returned"
    /\ IF err # "nil"
       THEN /\ stage' = "done"
            /\ failedAt' = "token"
            /\ UNCHANGED <<pc, err, token, timeout, attempt, exit, response, rx>>
       ELSE \E p \in ParseResults :
            /\ token' = IF p = "ok" THEN "tok" ELSE token
            /\ err' = IF p = "ok" THEN "nil" ELSE "ParseError"
            /\ stage' = AfterParse(p)
            /\ IF stage' = "done"
               THEN /\ failedAt' = "parse"
                    /\ UNCHANGED <<pc, timeout, attempt, exit, response, rx>>
               ELSE /\ pc' = "enter"
                    /\ timeout' = fetchTimeout - (now - fetchBegin)
                    /\ attempt' = 0
                    /\ exit' = "none"
                    /\ response' = NilBytes
                    /\ rx' = NoRead
                    /\ UNCHANGED failedAt
    /\ UNCHANGED <<now, packet, fetchTimeout, fetchBegin, begin, timeLeft, currentTimeout,
                   writeBurst, burstI, deadline, fetchResponse, instant, wfail, wroteTyped>>
    /\ UNCHANGED <<codecVars, fanVars, classVars>>

\* Fetch lines 224-230: the response Fetch returns, given FetchWithToken's results
FetchResponse(resp, e) == IF e # "nil" THEN NilBytes ELSE resp

\* Fetch lines 224-231: FetchWithToken has returned
FetchReturn ==
    /\ stage = "typed" /\ pc = "returned"
    /\ stage' = "done"
    /\ fetchResponse' = FetchResponse(response, err)
    /\ failedAt' = IF err # "nil" THEN "typed" ELSE "none"
    /\ UNCHANGED <<now, pc, packet, fetchTimeout, fetchBegin, timeout, begin, timeLeft,
                   currentTimeout, writeBurst, burstI, deadline, response, err, token,
                   attempt, instant, exit, wfail, rx, wroteTyped>>
    /\ UNCHANGED <<codecVars, fanVars, classVars>>

FetchNext == Enter \/ Check \/ Write \/ Read \/ ParseToken \/ FetchReturn

\* No call of Fetch is under way
FetchIdle ==
    /\ FetchInit
    /\ packet = "serverinfo"
    /\ fetchTimeout = 0

\* No VarInt is in use
CodecIdle == InitNil

(***************************************************************************)
(* Fan-out: ServerInfosWithTimeouts and its goroutines                     *)
(*                                                                         *)
(* A goroutine's statements that touch nothing shared (dial, the composite *)
(* exchange, the parse, the deferred conn.Close) are one step with the     *)
(* next statement that does.  How a dial, an exchange (Fetch, modelled     *)
(* above) or a parse ends is chosen freely.                                *)
(***************************************************************************)

\* MasterServerAddresses, the table of master servers
MasterServerAddresses == { "ms1", "ms2" }

\* The number of servers one master server reports at most
MaxServers == 2

Slots == 1..MaxServers

\* The addresses of the game servers there are
ServerAddresses == 1..MaxServers

\* The lists ParseServerList may return: servers in rising order of address, none twice
ServerLists ==
    { l \in UNION { [1..n -> ServerAddresses] : n \in 0..MaxServers } :
        \A j, k \in 1..Len(l) : j < k => l[j] < l[k] }

\* How the private part of a goroutine ends: "dial": DialUDP failed; "fail":
\* Fetch or the parser returned an error; "ok"
Outcomes == { "dial", "fail", "ok" }

\* ParseServerInfo(resp, srv.String()): the record of the server at address a
ServerInfo(a) == [Address |-> a]

\* cm.Add(info, 0) on the content c of the ConcurrentMap: one entry per address
Add(c, info) == { e \in c : e.Address # info.Address } \cup { info }

\* cm.Values()
Values(c) == c

\* wg.Wait() at line 307 returns when the counter is zero
MainWaitNoWait(counter) == TRUE

MainWait(counter) == counter = 0

\* infoWaiter.Wait() at line 340 returns when the counter is zero
InfoWaitNoWait(counter) == TRUE

InfoWait(counter) == counter = 0

\* A first-level goroutine that leaves without wg.Done() when it failed
MsAfterRunNoDone(out) == IF out = "ok" THEN "wait" ELSE "done"

\* fetchServersFromMasterServerAddress lines 316-340: where it goes after its
\* private part: on to the wait for its goroutines, or to the deferred wg.Done()
MsAfterRun(out) == IF out = "ok" THEN "wait" ELSE "signal"

\* A second-level goroutine that drops the parsed info
SrvAfterRunNoAdd(out) == "signal"

\* fetchServerInfoFromServerAddress lines 346-366: where it goes after its
\* private part: on to cm.Add, or to the deferred wg.Done()
SrvAfterRun(out) == IF out = "ok" THEN "add" ELSE "signal"

\* A goroutine that leaves its conn as it is
CloseForgotten(conn) == conn

\* The deferred conn.Close() of lines 320 and 350, run before the deferred wg.Done()
Close(conn) == "closed"

\* The conn of a goroutine after its private part: none when the dial failed
\* (lines 316-319, 346-349), closed by the deferred conn.Close() when the
\* exchange or the parse failed, open while the goroutine goes on
ConnAfterRun(out) ==
    IF out = "dial" THEN "none" ELSE IF out = "ok" THEN "open" ELSE Close("open")

\* ServerInfosWithTimeouts is called
FanInit ==
    /\ mainPc = "start"
    /\ wg = 0
    /\ cm = {}
    /\ infos = {}
    /\ msPc = [m \in MasterServerAddresses |-> "idle"]
    /\ msConn = [m \in MasterServerAddresses |-> "none"]
    /\ servers = [m \in MasterServerAddresses |-> <<>>]
    /\ infoWaiter = [m \in MasterServerAddresses |-> 0]
    /\ srvPc = [m \in MasterServerAddresses |-> [k \in Slots |-> "idle"]]
    /\ srvConn = [m \in MasterServerAddresses |-> [k \in Slots |-> "none"]]
    /\ msOut = [m \in MasterServerAddresses |-> "none"]
    /\ srvOut = [m \in MasterServerAddresses |-> [k \in Slots |-> "none"]]
    /\ msDone = [m \in MasterServerAddresses |-> 0]
    /\ srvDone = [m \in MasterServerAddresses |-> [k \in Slots |-> 0]]
    /\ lateAdd = FALSE

\* No call of ServerInfosWithTimeouts is under way
FanIdle == FanInit

\* ServerInfosWithTimeouts lines 297-305: the map, wg.Add and the go statements
MainStart ==
    /\ mainPc = "start"
    /\ mainPc' = "wait"
    /\ cm' = {}
    /\ wg' = wg + Cardinality(MasterServerAddresses)
    /\ msPc' = [m \in MasterServerAddresses |-> "run"]
    /\ UNCHANGED <<infos, msConn, servers, infoWaiter, srvPc, srvConn, msOut, srvOut,
                   msDone, srvDone, lateAdd>>
    /\ UNCHANGED <<codecVars, fetchVars, classVars>>

\* ServerInfosWithTimeouts lines 307-310: wg.Wait(), cm.Values() and the return
MainReturn ==
    /\ mainPc = "wait"
    /\ MainWait(wg)
    /\ infos' = Values(cm)
    /\ mainPc' = "returned"
    /\ UNCHANGED <<wg, cm, msPc, msConn, servers, infoWaiter, srvPc, srvConn, msOut,
                   srvOut, msDone, srvDone, lateAdd>>
    /\ UNCHANGED <<codecVars, fetchVars, classVars>>

\* fetchServersFromMasterServerAddress lines 316-339: the dial, the exchange,
\* the parse and, with a list, infoWaiter.Add and the go statements
MsRun(m) ==
    /\ msPc[m] = "run"
    /\ \E out \in Outcomes, list \in ServerLists :
        /\ out # "ok" => list = <<>>
        /\ msOut' = [msOut EXCEPT ![m] = out]
        /\ msPc' = [msPc EXCEPT ![m] = MsAfterRun(out)]
        /\ msConn' = [msConn EXCEPT ![m] = ConnAfterRun(out)]
        /\ servers' = [servers EXCEPT ![m] = list]
        /\ infoWaiter' = [infoWaiter EXCEPT ![m] = @ + Len(list)]
        /\ srvPc' = [srvPc EXCEPT ![m] =
                        [k \in Slots |-> IF k <= Len(list) THEN "run" ELSE @[k]]]
    /\ UNCHANGED <<mainPc, wg, cm, infos, srvConn, srvOut, msDone, srvDone, lateAdd>>
    /\ UNCHANGED <<codecVars, fetchVars, classVars>>

\* fetchServersFromMasterServerAddress line 340 and the deferred conn.Close()
MsWait(m) ==
    /\ msPc[m] = "wait"
    /\ InfoWait(infoWaiter[m])
    /\ msConn' = [msConn EXCEPT ![m] = Close(@)]
    /\ msPc' = [msPc EXCEPT ![m] = "signal"]
    /\ UNCHANGED <<mainPc, wg, cm, infos, servers, infoWaiter, srvPc, srvConn, msOut,
                   srvOut, msDone, srvDone, lateAdd>>
    /\ UNCHANGED <<codecVars, fetchVars, classVars>>

\* fetchServersFromMasterServerAddress line 314: the deferred wg.Done()
MsDone(m) ==
    /\ msPc[m] = "signal"
    /\ wg' = wg - 1
    /\ msDone' = [msDone EXCEPT ![m] = @ + 1]
    /\ msPc' = [msPc EXCEPT ![m] = "done"]
    /\ UNCHANGED <<mainPc, cm, infos, msConn, servers, infoWaiter, srvPc, srvConn, msOut,
                   srvOut, srvDone, lateAdd>>
    /\ UNCHANGED <<codecVars, fetchVars, classVars>>

\* fetchServerInfoFromServerAddress lines 346-364: the dial, the exchange and
\* the parse; when one of them failed also the deferred conn.Close()
SrvRun(m, k) ==
    /\ srvPc[m][k] = "run"
    /\ \E out \in Outcomes :
        /\ srvOut' = [srvOut EXCEPT ![m][k] = out]
        /\ srvPc' = [srvPc EXCEPT ![m][k] = SrvAfterRun(out)]
        /\ srvConn' = [srvConn EXCEPT ![m][k] = ConnAfterRun(out)]
    /\ UNCHANGED <<mainPc, wg, cm, infos, msPc, msConn, servers, infoWaiter, msOut,
                   msDone, srvDone, lateAdd>>
    /\ UNCHANGED <<codecVars, fetchVars, classVars>>

\* fetchServerInfoFromServerAddress line 366 and the deferred conn.Close()
SrvAdd(m, k) ==
    /\ srvPc[m][k] = "add"
    /\ cm' = Add(cm, ServerInfo(servers[m][k]))
    /\ lateAdd' = (lateAdd \/ mainPc = "returned")
    /\ srvConn' = [srvConn EXCEPT ![m][k] = Close(@)]
    /\ srvPc' = [srvPc EXCEPT ![m][k] = "signal"]
    /\ UNCHANGED <<mainPc, wg, infos, msPc, msConn, servers, infoWaiter, msOut, srvOut,
                   msDone, srvDone>>
    /\ UNCHANGED <<codecVars, fetchVars, classVars>>

\* fetchServerInfoFromServerAddress line 344: the deferred wg.Done()
SrvDone(m, k) ==
    /\ srvPc[m][k] = "signal"
    /\ infoWaiter' = [infoWaiter EXCEPT ![m] = @ - 1]
    /\ srvDone' = [srvDone EXCEPT ![m][k] = @ + 1]
    /\ srvPc' = [srvPc EXCEPT ![m][k] = "done"]
    /\ UNCHANGED <<mainPc, wg, cm, infos, msPc, msConn, servers, msOut, srvOut, srvConn,
                   msDone, lateAdd>>
    /\ UNCHANGED <<codecVars, fetchVars, classVars>>

FanNext ==
    \/ MainStart
    \/ MainReturn
    \/ \E m \in MasterServerAddresses : MsRun(m) \/ MsWait(m) \/ MsDone(m)
    \/ \E m \in MasterServerAddresses, k \in Slots : SrvRun(m, k) \/ SrvAdd(m, k) \/ SrvDone(m, k)

(***************************************************************************)
(* Specifications                                                          *)
(***************************************************************************)

vars == <<codecVars, fetchVars, fanVars, classVars>>

\* The VarInt buffer
Init == CodecInit /\ FetchIdle /\ FanIdle /\ ClassIdle

Spec == Init /\ [][CodecNext]_vars

\* One call of Fetch
InitFetch == FetchInit /\ CodecIdle /\ FanIdle /\ ClassIdle

SpecFetch == InitFetch /\ [][FetchNext]_vars

\* One call of Fetch that goes on as long as it can take a step
SpecFetchFair == SpecFetch /\ WF_vars(FetchNext)

\* One call of ServerInfosWithTimeouts
InitFan == FanInit /\ CodecIdle /\ FetchIdle /\ ClassIdle

SpecFan == InitFan /\ [][FanNext]_vars

\* One call of ServerInfosWithTimeouts whose goroutines are scheduled as long
\* as one of them can take a step
SpecFanFair == SpecFan /\ WF_vars(FanNext)

\* One call of MatchResponse
InitClass == ClassInit /\ CodecIdle /\ FetchIdle /\ FanIdle

SpecClass == InitClass /\ [][ClassNext]_vars

(***************************************************************************)
(* Properties of the VarInt codec                                          *)
(***************************************************************************)

\* The encodings of the values in packed, one after the other
RECURSIVE Encoded(_)
Encoded(ps) == IF ps = <<>> THEN <<>> ELSE Encoding[Head(ps).v] \o Encoded(Tail(ps))

\* C1: round trip.  An Unpack of a buffer that started empty and holds the
\* encoding of exactly one in-range value returns that value with no error,
\* consumes exactly the bytes Pack appended for it, and leaves the buffer empty.
C1_RoundTrip ==
    (last.op = "Unpack" /\ fresh /\ last.pending = 1)
        => /\ last.err = "nil"
           /\ last.value = last.arg
           /\ last.n = last.size
           /\ Compressed = <<>>

\* C1 witness: the smallest 32-bit value was packed into the nil buffer and unpacked
C1_Witness ==
    /\ last.op = "Unpack" /\ fresh /\ last.pending = 1
    /\ last.arg = MinInt32 /\ last.value = MinInt32 /\ last.n = maxBytesInVarInt

\* C2: first in, first out.  In a buffer that started empty every Unpack returns
\* the oldest value not yet unpacked and consumes the bytes of that value's
\* encoding only, so that the buffer always holds exactly the encodings of the
\* values still to come, in order; after the last of them the buffer is empty
\* and a further Unpack fails with NoDataToUnpack.
C2_Fifo ==
    fresh =>
        /\ Compressed = Encoded(packed)
        /\ (last.op = "Unpack" /\ last.pending >= 1)
              => (last.err = "nil" /\ last.value = last.arg /\ last.n = last.size)
        /\ (last.op = "Unpack" /\ last.pending = 0)
              => (last.err = "NoDataToUnpack" /\ Compressed = <<>>)

\* C2 witness: the first of MaxPacked values was unpacked, the others are still
\* in the buffer
C2_Witness ==
    /\ last.op = "Unpack" /\ fresh /\ last.pending = MaxPacked
    /\ last.value = MinInt32 /\ last.err = "nil"
    /\ Len(packed) = MaxPacked - 1 /\ packed[1].v = IntOf(-8193)


\* C13: a Pack of a value below -2147483648 or above 2147483647 panics; it
\* appends no byte and leaves the bytes of the buffer as they were.
C13_OutOfRangeRejected ==
    [][(last'.op = "Pack" /\ last'.arg \in OutOfRangeValues) =>
            /\ last'.err = "panic"
            /\ last'.n = 0
            /\ Compressed' = Compressed
            /\ packed' = packed]_vars

\* The rejected Pack of 2^31 into a buffer that holds an integer
C13_Witness ==
    /\ last.op = "Pack"
    /\ last.arg = Shl(IntOf(1), 31)
    /\ last.err = "panic"
    /\ packed # <<>>
    /\ Compressed = Encoded(packed)

\* The rejected Pack of -2^31 - 1
C13_WitnessBelow ==
    /\ last.op = "Pack"
    /\ last.arg = Xor(Shl(IntOf(1), 31), IntOf(-1))
    /\ last.err = "panic"
    /\ Compressed # <<>>

\* C14: an Unpack of a buffer that holds no byte, be it nil, cleared or used
\* up, returns NoDataToUnpack and leaves the buffer empty; and in a buffer that
\* started empty an Unpack that comes after such a failure still returns the
\* value packed, consuming the bytes of its encoding.
C14_EmptyUnpack ==
    /\ [][(last'.op = "Unpack" /\ Compressed = <<>>) =>
              /\ last'.err = "NoDataToUnpack"
              /\ Compressed' = <<>>
              /\ packed' = packed
              /\ noData']_vars
    /\ []((noData /\ fresh /\ last.op = "Unpack" /\ last.pending >= 1) =>
              /\ last.err = "nil"
              /\ last.value = last.arg
              /\ last.n = last.size
              /\ Compressed = Encoded(packed))

\* After a failed Unpack of the empty buffer, 63 was packed and unpacked again
C14_Witness ==
    /\ noData /\ fresh
    /\ last.op = "Unpack" /\ last.pending = 1
    /\ last.err = "nil"
    /\ last.arg = IntOf(63) /\ last.value = IntOf(63) /\ last.n = 1
    /\ Compressed = <<>>

\* The failed Unpack of the nil buffer
C14_WitnessNil ==
    /\ last.op = "Unpack" /\ last.err = "NoDataToUnpack"
    /\ last.pending = 0 /\ fresh /\ Compressed = <<>> /\ noData

\* The bytes the step has put behind those the buffer held
Appended == SubSeq(Compressed', Len(Compressed) + 1, Len(Compressed'))

\* C19: a Pack of an in-range value leaves the bytes the buffer held in front,
\* whatever they are, and puts 1 to 5 bytes behind them: all but the last with
\* bit 7 set, the last with bit 7 clear, the first with bit 6 set exactly when the
\* value is negative, and one byte only exactly when -64 <= value <= 63.
C19_PackAppends ==
    [][(last'.op = "Pack" /\ last'.arg \in InRangeValues) =>
            /\ last'.err = "nil"
            /\ Len(Compressed') >= Len(Compressed)
            /\ SubSeq(Compressed', 1, Len(Compressed)) = Compressed
            /\ Len(Appended) \in 1..5
            /\ Len(Appended) = last'.n
            /\ \A j \in 1..(Len(Appended) - 1) : Appended[j] >= 128
            /\ Appended[Len(Appended)] < 128
            /\ ((Appended[1] \div 64) % 2 = 1) <=> (last'.arg[intBits] = 1)
            /\ (Len(Appended) = 1) <=>
                    (~Less(last'.arg, IntOf(-64)) /\ ~Less(IntOf(63), last'.arg))]_vars

\* The smallest 32-bit value packed behind two bytes that no Pack produced
C19_Witness ==
    /\ last.op = "Pack" /\ last.err = "nil"
    /\ last.arg = MinInt32
    /\ last.n = 5
    /\ Compressed = <<191, 1, 255, 255, 255, 255, 15>>

\* -64, the least value of one byte, packed behind the encoding of 64
C19_WitnessOneByte ==
    /\ last.op = "Pack" /\ last.err = "nil"
    /\ last.arg = IntOf(-64)
    /\ last.n = 1
    /\ Compressed = <<128, 1, 127>>

\* C20: an Unpack of a buffer that holds bytes, also bytes that no Pack produced
\* and whose last byte has bit 7 set, returns a value, consumes 1 to 5 bytes
\* and no more than the buffer holds, and leaves the bytes behind them.
C20_UnpackInside ==
    [][(last'.op = "Unpack" /\ Compressed # <<>>) =>
            /\ last'.err = "nil"
            /\ last'.n \in 1..5
            /\ last'.n <= Len(Compressed)
            /\ Compressed' = SubSeq(Compressed, last'.n + 1, Len(Compressed))]_vars

(***************************************************************************)
(* Properties of the retry engine                                          *)
(***************************************************************************)

\* The running exchange (FetchToken or FetchWithToken) has returned
ExchangeReturned == Running /\ pc = "returned"

\* The errors of a request that failed
RequestErrors == { "WriteError", "InvalidWrite", "BuildError" }

\* C3: retry termination.  FetchToken and FetchWithToken each return in the
\* end, and an exchange that returns with neither a valid response nor a failed
\* request returns Timeout, from the budget check at the top of an iteration.
C3_RetryTermination ==
    /\ [](Running => <>(pc = "returned"))
    /\ []((ExchangeReturned /\ err # "nil" /\ err \notin RequestErrors)
            => (err = "Timeout" /\ exit = "check" /\ timeLeft <= 0))

\* C3 witness: FetchWithToken has returned Timeout after three bursts, none of
\* which was answered by a valid response
C3_Witness ==
    /\ stage = "typed" /\ pc = "returned" /\ err = "Timeout" /\ exit = "check"
    /\ attempt = 3 /\ wfail = NoWrite

\* C8: a failed write is fatal.  Once a request write has returned an error or
\* written too few bytes, the exchange has returned that error: no further write
\* of the burst, no read and no further attempt follows, and Fetch goes on to no
\* other exchange.
C8_WriteFailureFatal ==
    wfail # NoWrite =>
        /\ pc = "returned"
        /\ exit = "write"
        /\ err \in { "WriteError", "InvalidWrite" }
        /\ stage \in { wfail.stage, "done" }
        /\ burstI = wfail.i
        /\ attempt = wfail.attempt
        /\ wfail.stage = "token" => ~wroteTyped /\ token = "none"

\* C8 witness: the second request of a typed burst was written short while two
\* ticks of the budget were left
C8_Witness ==
    /\ wfail.stage = "typed" /\ wfail.i = 1 /\ wfail.left >= 2
    /\ err = "InvalidWrite" /\ pc = "returned"

\* What the last read delivered is a response of the requested type
RxMatches == rx.err = "nil" /\ Len(rx.data) > 0 /\ MatchResponse(rx.data) = <<packet, "nil">>

\* C9: the typed exchange returns only a matching response.  When FetchWithToken
\* returns no error, its response is the non-empty buffer just read and the
\* classifier gives it the requested type; a read that delivered anything else
\* is an error that is followed by the backoff and the next budget check, and
\* the exchange returns after it only with the error of that check or of a
\* later request.
C9_TypedMatch ==
    stage = "typed" =>
        /\ (pc = "returned" /\ err = "nil")
              => /\ response # NilBytes /\ Len(response) > 0
                 /\ MatchResponse(response) = <<packet, "nil">>
                 /\ response = rx.data
        /\ (rx # NoRead /\ ~RxMatches)
              => /\ attempt >= 1
                 /\ pc = "check" => err # "nil"
                 /\ pc = "returned" => (err # "nil" /\ exit \in { "check", "write" })

\* C9 witness: FetchWithToken has returned the server list response after a
\* burst that was answered by something else
C9_Witness ==
    /\ stage = "typed" /\ pc = "returned" /\ err = "nil" /\ attempt >= 1
    /\ packet = "serverlist" /\ response = <<0, 0, 255, 1, 0, 0>>

\* C9 witness of a retry: a datagram of the size of a token response was read in
\* the typed exchange and the exchange is back at the budget check
C9_WitnessRetry ==
    /\ stage = "typed" /\ pc = "check" /\ rx.err = "nil"
    /\ Len(rx.data) = tokenResponseSize /\ err = "RequestResponseMismatch"

\* C10: the order of the composite exchange.  A typed request is written, and
\* FetchWithToken entered, only after a token response was received and parsed.
\* When the token stage fails (FetchToken or ParseToken returns an error) Fetch
\* returns that error and no response, and no typed request was written; when
\* the typed stage fails Fetch returns that error and no response; Fetch returns
\* a response only when both stages succeeded.
C10_FetchOrder ==
    /\ (wroteTyped \/ stage = "typed") => token = "tok"
    /\ (stage = "done" /\ failedAt \in { "token", "parse" })
          => /\ fetchResponse = NilBytes /\ err # "nil"
             /\ ~wroteTyped
             /\ failedAt = "token" => token = "none"
    /\ (stage = "done" /\ failedAt = "typed")
          => (fetchResponse = NilBytes /\ err # "nil")
    /\ (stage = "done" /\ fetchResponse # NilBytes)
          => (err = "nil" /\ token = "tok" /\ failedAt = "none" /\ RxMatches)
    /\ (stage = "done" /\ err = "nil") => fetchResponse # NilBytes

\* C10 witness: Fetch has returned the error of ParseToken
C10_Witness ==
    /\ stage = "done" /\ failedAt = "parse" /\ err = "ParseError"
    /\ fetchResponse = NilBytes /\ ~wroteTyped

\* C10 witness of a typed stage that failed holding a response of another type
C10_WitnessTyped ==
    /\ stage = "done" /\ failedAt = "typed" /\ err = "Timeout"
    /\ response # NilBytes /\ fetchResponse = NilBytes

\* C15: in every attempt that sends a burst the read timeout in force is no
\* longer than what is left of the timeout when the attempt starts: the read
\* deadline set at the top of the loop is no later than begin + timeout.
C15_DeadlineRespected ==
    (Running /\ pc = "burst") =>
        /\ currentTimeout <= timeLeft
        /\ deadline <= begin + timeout

RECURSIVE Pow(_, _)
Pow(b, n) == IF n = 0 THEN 1 ELSE b * Pow(b, n - 1)

\* The burst of FetchToken has been written and its read is next
TokenBurstWritten == stage = "token" /\ pc = "burst" /\ ~InBurst

\* C16 as amended: in FetchToken the accumulated burst value of attempt n is
\* 1.2^n, and the attempt writes the least whole number of packets that is not
\* below it, 1, 2, 2, 2, 3, ...: the loop at line 62 goes on while i < writeBurst.
C16_TokenBurstCeil ==
    (stage = "token" /\ pc = "burst") =>
        /\ writeBurst = <<Pow(6, attempt), Pow(5, attempt)>>
        /\ burstI <= (Pow(6, attempt) + Pow(5, attempt) - 1) \div Pow(5, attempt)
        /\ TokenBurstWritten =>
              burstI = (Pow(6, attempt) + Pow(5, attempt) - 1) \div Pow(5, attempt)

\* The second attempt of FetchToken has written its two packets
C16_Witness ==
    /\ TokenBurstWritten
    /\ attempt = 1
    /\ writeBurst = <<6, 5>>
    /\ burstI = 2

\* C16 as stated: attempt n of FetchToken writes floor(1.2^n) packets, 1, 1, 1, 1, 2, ...
C16_TokenBurstFloor ==
    TokenBurstWritten => burstI = Pow(6, attempt) \div Pow(5, attempt)

\* C17: the typed exchange of Fetch runs with a total timeout of what is left of
\* Fetch's timeout when the token stage is over, the timeout less the time the
\* token stage took, and no more when the token stage took nearly all of it.
C17_BudgetHandOver ==
    (stage = "typed" /\ pc # "enter") =>
        timeout = fetchTimeout - (begin - fetchBegin)

\* The step is the read of an attempt: the loop leaves its burst other than by
\* a failed request
ReadStep == pc = "burst" /\ (pc' = "check" \/ (pc' = "returned" /\ exit' = "read"))

\* C18: in FetchWithToken attempt n writes 2^n requests, never more, and has
\* written all of them, at least one, when its one read is made; after the read
\* the exchange returns or goes on to attempt n + 1, and requests are written
\* within an attempt only.
C18_TypedBurst ==
    /\ []((stage = "typed" /\ pc = "burst") =>
            /\ writeBurst = <<Pow(2, attempt), 1>>
            /\ burstI <= Pow(2, attempt))
    /\ [][(stage = "typed" /\ ReadStep) =>
            /\ burstI = Pow(2, attempt)
            /\ burstI >= 1
            /\ wroteTyped
            /\ (pc' = "returned" /\ attempt' = attempt) \/ attempt' = attempt + 1]_vars
    /\ [][(stage = "typed" /\ burstI' = burstI + 1) =>
            (pc = "burst" /\ pc' = "burst" /\ attempt' = attempt)]_vars

\* The third attempt of FetchWithToken has written its four requests
C18_Witness ==
    /\ stage = "typed" /\ pc = "burst" /\ ~InBurst
    /\ attempt = 2
    /\ burstI = 4
    /\ wroteTyped

(***************************************************************************)
(* Properties of the fan-out                                               *)
(***************************************************************************)

\* The goroutines fetchServersFromMasterServerAddress(m) has started
Launched(m) == { k \in Slots : srvPc[m][k] # "idle" }

\* The addresses the master servers have reported
Reported == UNION { { servers[m][k] : k \in 1..Len(servers[m]) } : m \in MasterServerAddresses }

\* No dial, exchange or parse has failed
NoFailure ==
    /\ \A m \in MasterServerAddresses : msOut[m] \in { "none", "ok" }
    /\ \A m \in MasterServerAddresses, k \in Slots : srvOut[m][k] \in { "none", "ok" }

\* C4: when ServerInfosWithTimeouts has returned and no exchange has failed, the
\* collection it returned holds exactly one entry for each distinct address the
\* master servers reported: none is lost, and an address that several master
\* servers reported is there once, whatever the order the goroutines ran in.
C4_Aggregation ==
    (mainPc = "returned" /\ NoFailure) =>
        /\ infos = { ServerInfo(a) : a \in Reported }
        /\ Cardinality(infos) = Cardinality(Reported)

\* Both master servers answered, one address in both lists, every exchange succeeded
C4_Witness ==
    /\ mainPc = "returned"
    /\ NoFailure
    /\ servers["ms1"] = <<1, 2>>
    /\ servers["ms2"] = <<1>>
    /\ infos = { ServerInfo(1), ServerInfo(2) }

\* C5: ServerInfosWithTimeouts reads the collection only after every first-level
\* goroutine has signalled (wg.Done), a first-level goroutine signals only after
\* every goroutine it started has signalled, and so no cm.Add is pending at or
\* comes after the read-out: what was read is all that is ever inserted.
C5_Barrier ==
    /\ mainPc = "returned" => \A m \in MasterServerAddresses : msPc[m] = "done"
    /\ \A m \in MasterServerAddresses :
        msPc[m] \in { "signal", "done" } => \A k \in Slots : srvPc[m][k] \in { "idle", "done" }
    /\ mainPc = "returned" =>
        \A m \in MasterServerAddresses, k \in Slots : srvPc[m][k] \notin { "run", "add" }
    /\ ~lateAdd
    /\ mainPc = "returned" => infos = cm

\* The read-out after a master server's two goroutines both inserted
C5_Witness ==
    /\ mainPc = "returned"
    /\ \E m \in MasterServerAddresses :
        /\ Len(servers[m]) = MaxServers
        /\ \A k \in Slots : srvOut[m][k] = "ok" /\ srvDone[m][k] = 1
    /\ infos # {}

\* C6: a goroutine that fails takes nothing from the others: every game server
\* whose own exchange succeeded and whose master server answered has its entry in
\* the collection from its cm.Add on, and in what ServerInfosWithTimeouts returns.
C6_Isolation ==
    /\ \A m \in MasterServerAddresses, k \in Slots :
        (srvOut[m][k] = "ok" /\ srvPc[m][k] \in { "signal", "done" }) =>
            ServerInfo(servers[m][k]) \in cm
    /\ mainPc = "returned" =>
        \A m \in MasterServerAddresses : \A k \in Launched(m) :
            (msOut[m] = "ok" /\ srvOut[m][k] = "ok") => ServerInfo(servers[m][k]) \in infos

\* One master server failed after its dial, a game server of the other could not
\* be dialled, and the other game server's info is returned all the same
C6_Witness ==
    /\ mainPc = "returned"
    /\ msOut["ms1"] = "fail"
    /\ msOut["ms2"] = "ok"
    /\ servers["ms2"] = <<1, 2>>
    /\ srvOut["ms2"][1] = "dial"
    /\ srvOut["ms2"][2] = "ok"
    /\ infos = { ServerInfo(2) }

\* Every goroutine that was started has signalled once, the others never
AllSignalled ==
    /\ \A m \in MasterServerAddresses : msDone[m] = 1
    /\ \A m \in MasterServerAddresses, k \in Slots :
        srvDone[m][k] = IF k \in Launched(m) THEN 1 ELSE 0

\* C7: whatever the dials, exchanges and parses come to, ServerInfosWithTimeouts
\* returns in the end; no goroutine signals twice and no counter goes below zero;
\* when it returns both counters are zero and every goroutine that was started has
\* signalled exactly once.
C7_Completes ==
    /\ <>(mainPc = "returned")
    /\ [](/\ wg >= 0
          /\ \A m \in MasterServerAddresses : infoWaiter[m] >= 0 /\ msDone[m] <= 1
          /\ \A m \in MasterServerAddresses, k \in Slots : srvDone[m][k] <= 1)
    /\ [](mainPc = "returned" =>
            /\ wg = 0
            /\ \A m \in MasterServerAddresses : infoWaiter[m] = 0
            /\ AllSignalled)

\* The return with an empty collection: one master server could not be dialled,
\* the other answered, one of its game servers could not be dialled and the
\* other's exchange failed
C7_Witness ==
    /\ mainPc = "returned"
    /\ msOut["ms1"] = "dial"
    /\ msOut["ms2"] = "ok"
    /\ Len(servers["ms2"]) = 2
    /\ srvOut["ms2"][1] = "dial"
    /\ srvOut["ms2"][2] = "fail"
    /\ infos = {}
    /\ AllSignalled

\* No goroutine holds an open conn
NoneOpen ==
    /\ \A m \in MasterServerAddresses : msConn[m] # "open"
    /\ \A m \in MasterServerAddresses, k \in Slots : srvConn[m][k] # "open"

\* C12: a goroutine that is about to signal (wg.Done) or has signalled holds no
\* open conn, whether its exchange or its parse failed or it succeeded; none is
\* open when ServerInfosWithTimeouts has returned; and a conn changes only in a
\* step of the goroutine that dialled it.
C12_Release ==
    /\ [](/\ \A m \in MasterServerAddresses :
                msPc[m] \in { "signal", "done" } => msConn[m] # "open"
          /\ \A m \in MasterServerAddresses, k \in Slots :
                srvPc[m][k] \in { "signal", "done" } => srvConn[m][k] # "open"
          /\ mainPc = "returned" => NoneOpen)
    /\ [][/\ \A m \in MasterServerAddresses :
                msConn'[m] # msConn[m] => msPc'[m] # msPc[m]
          /\ \A m \in MasterServerAddresses, k \in Slots :
                srvConn'[m][k] # srvConn[m][k] => srvPc'[m][k] # srvPc[m][k]]_vars

\* The return after one master server's exchange failed, the other answered, one
\* of its game servers' exchange failed and the other succeeded: four conns
\* were opened, all are closed
C12_Witness ==
    /\ mainPc = "returned"
    /\ msOut["ms1"] = "fail" /\ msConn["ms1"] = "closed"
    /\ msOut["ms2"] = "ok" /\ msConn["ms2"] = "closed"
    /\ Len(servers["ms2"]) = 2
    /\ srvOut["ms2"][1] = "fail" /\ srvConn["ms2"][1] = "closed"
    /\ srvOut["ms2"][2] = "ok" /\ srvConn["ms2"][2] = "closed"

(***************************************************************************)
(* Properties of the classifier                                            *)
(***************************************************************************)

\* The bytes of m where MatchResponse looks for the signature sig
AtOffset(m, sig) == SubSeq(m, tokenPrefixSize + 1, tokenPrefixSize + Len(sig))

C11_WitnessShort ==
    /\ msg = <<1, 1, 255>>
    /\ matched = <<"", "InvalidHeaderLength">>

\* A longer buffer with the server info signature at the offset
C11_WitnessInfo ==
    /\ Len(msg) = MaxMessageLen
    /\ AtOffset(msg, sendInfoRaw) = sendInfoRaw
    /\ matched = <<"serverinfo", "nil">>

=============================================================================
